---- MODULE Spec2Model ----
(***************************************************************************)
(* protofuzz value generators and permuters (protofuzz/gen.py), with the   *)
(* message log (protofuzz/log.py) and the fuzzdb values                    *)
(* (protofuzz/values.py) after them.                                       *)
(*                                                                         *)
(* Every generator object lives in `heap`, a sequence of records indexed   *)
(* by object id.  The operations of gen.py are operators that take a heap  *)
(* and an object id and return the heap after the call together with the   *)
(* outcome of the call: the value returned, or the exception raised.       *)
(***************************************************************************)
EXTENDS Integers, Sequences, FiniteSets, TLC

VARIABLES
    heap,       \* the generator objects, by id
    last,       \* the most recent call of the caller and its outcome
    phase,      \* the caller's position: "cfg" (building and configuring),
                \* "run" (iterating Root), "end" (next(Root) raised
                \* StopIteration), "err" (next(Root) raised something else)
    produced,   \* what next(Root) has returned in the current iteration
    prev,       \* what the previous iteration of Root produced, kept when
                \* it ran to StopIteration
    runs,       \* number of iterations of Root begun
    klimit,     \* the limit Root was given before its first iteration
    plan,       \* number of make_dependent calls the caller has yet to make
    deps,       \* the make_dependent calls that wired a dependency, in order
    torename,   \* number of set_name calls the caller has yet to make
    \* protofuzz/log.py
    exists,     \* os.path.exists(self._filename)
    file,       \* the bytes of the log file
    size,       \* self._size
    logged,     \* the objects handed to log(), in order
    got,        \* what the most recent get() of the caller returned
    \* protofuzz/values.py
    call,       \* the function called and its arguments
    stream,     \* the fuzzdb file read: its lines, or the integers on them
    cursor,     \* number of items of the stream the generator has taken
    remaining,  \* the variable limit of _limit_helper
    yielded,    \* what the generator has yielded so far
    finished,   \* the generator has returned
    \* protofuzz/protofuzz.py
    descriptor,     \* self._descriptor of the ProtobufGenerator
    dependencies,   \* self._dependencies
    request,        \* the generator permute() or linear() returned last
    objects,        \* what that generator has yielded so far
    earlier         \* the request before it and all it yielded, kept when
                    \* it was iterated to the end

genvars == <<heap, last, phase, produced, prev, runs, klimit, plan, deps, torename>>
logvars == <<exists, file, size, logged, got>>
valvars == <<call, stream, cursor, remaining, yielded, finished>>
fuzzvars == <<descriptor, dependencies, request, objects, earlier>>

vars == <<genvars, logvars, valvars, fuzzvars>>

----------------------------------------------------------------------------
(* Bounds of the model *)

MaxLen == 2         \* longest source sequence of an IterValueGenerator
MaxLimit == 3       \* largest explicit limit tried
MaxDeps == 2        \* most make_dependent calls of one caller
MaxRuns == 2        \* most iterations of Root one caller begins
MaxSteps == 2       \* values taken from a permuter that never stops, beyond
                    \* the longest sequence of one that does
MaxRenames == 1     \* most set_name calls of one caller
MaxSize == 2        \* largest size of a LastNMessagesLogger
MaxLogs == 3        \* most log() calls on one file
MaxObj == 3         \* the objects logged are the integers 1..MaxObj
MaxLines == 3       \* most lines of a fuzzdb file of strings
MaxK == 3           \* largest limit handed to get_strings
MaxBits == 4        \* largest bitwidth handed to get_integers
MaxSpin == 2        \* passes of one loop of Product.step_generator that yield
                    \* nothing, beyond the most a returning step makes, after
                    \* which the step is taken not to return

----------------------------------------------------------------------------
(* Values *)

\* self._cached_value = None
NoneVal == -1
\* limit=float('inf')
Inf == -1
\* self._iter = None
NoIter == -1
\* no object: the _target of a generator that has none
Null == 0

Root == 1

Kinds == {"iter", "dep", "zip", "product"}

IsPermuter(h, o) == h[o].kind \in {"zip", "product"}

\* isinstance(_, DependentValueGenerator)
IsDependent(h, o) == h[o].kind = "dep"

\* The callables handed to DependentValueGenerator and make_dependent:
\* increment_by_one and is_even of the tests (True == 1, False == 0).
Transforms == {"increment_by_one", "is_even"}

Apply(f, v) ==
    IF f = "increment_by_one" THEN v + 1
    ELSE IF v % 2 = 0 THEN 1 ELSE 0

\* The outcome of a call: the heap after it, how it ended, what it returned.
Ret(h, v) == [h |-> h, err |-> "ok", val |-> v]
Raise(h, e) == [h |-> h, err |-> e, val |-> NoneVal]

----------------------------------------------------------------------------
(* Constructors *)

\* ValueGenerator.__init__
ValueGenerator(kind, name, limit) ==
    [kind |-> kind, name |-> name, cached |-> NoneVal, limit |-> limit,
     values |-> <<>>, lazy |-> FALSE, pos |-> NoIter, target |-> Null,
     action |-> "", gens |-> <<>>, indep |-> <<>>, step |-> ""]

\* IterValueGenerator.__init__
IterValueGenerator(name, values) ==
    [ValueGenerator("iter", name, Inf) EXCEPT !.values = values]

\* IterValueGenerator.__init__ where values is a generator object, which is
\* its own iterator: the values are those it yields, once
OverGenerator(name, values) ==
    [IterValueGenerator(name, values) EXCEPT !.lazy = TRUE]

\* DependentValueGenerator.__init__
DependentValueGenerator(name, target, action) ==
    [ValueGenerator("dep", name, Inf) EXCEPT !.target = target, !.action = action]

----------------------------------------------------------------------------
(* get() *)

RECURSIVE GetFrom(_, _, _)
RECURSIVE GetAll(_, _, _, _)
RECURSIVE Next(_, _)

\* IterGet that hands the cached value over and forgets it
IterGetTakes(h, o) ==
    IF h[o].cached = NoneVal THEN Raise(h, "RuntimeError")
    ELSE Ret([h EXCEPT ![o].cached = NoneVal], h[o].cached)

\* IterValueGenerator.get
IterGet(h, o) ==
    IF h[o].cached = NoneVal THEN Raise(h, "RuntimeError")
    ELSE Ret(h, h[o].cached)

\* DependentGet with the action not applied
DependentGetUntransformed(h, o, n) ==
    LET r == GetFrom(h, h[o].target, n + 1) IN
    IF r.err # "ok" THEN r
    ELSE IF IsPermuter(h, h[o].target) THEN Raise(r.h, "TypeError")
    ELSE Ret(r.h, r.val)

\* DependentGet that advances the target and transforms what that returns
DependentGetSteps(h, o, n) ==
    LET r == Next(h, h[o].target) IN
    IF r.err # "ok" THEN r
    ELSE IF IsPermuter(h, h[o].target) THEN Raise(r.h, "TypeError")
    ELSE Ret(r.h, Apply(h[o].action, r.val))

\* DependentValueGenerator.get, n get() calls deep; the callables of the
\* tests are arithmetic and raise TypeError on the tuple a Permuter returns.
DependentGet(h, o, n) ==
    LET r == GetFrom(h, h[o].target, n + 1) IN
    IF r.err # "ok" THEN r
    ELSE IF IsPermuter(h, h[o].target) THEN Raise(r.h, "TypeError")
    ELSE Ret(r.h, Apply(h[o].action, r.val))

\* [(x.name(), x.get()) for x in self._generators], from child i on
GetAll(h, gens, i, n) ==
    IF i > Len(gens) THEN Ret(h, <<>>)
    ELSE LET r == GetFrom(h, gens[i], n + 1) IN
         IF r.err # "ok" THEN r
         ELSE LET rest == GetAll(r.h, gens, i + 1, n) IN
              IF rest.err # "ok" THEN rest
              ELSE Ret(rest.h, << <<h[gens[i]].name, r.val>> >> \o rest.val)

\* PermuterGet over the independent generators only
PermuterGetIndependents(h, o, n) == GetAll(h, h[o].indep, 1, n)

\* Permuter.get, n get() calls deep
PermuterGet(h, o, n) == GetAll(h, h[o].gens, 1, n)

\* get() of each class, n get() calls deep.  A chain of get() calls longer
\* than the number of objects goes round a cycle of targets and children and
\* ends in Python's RecursionError.
GetFrom(h, o, n) ==
    IF n > Len(h) THEN Raise(h, "RecursionError")
    ELSE IF h[o].kind = "iter" THEN IterGet(h, o)
    ELSE IF h[o].kind = "dep" THEN DependentGet(h, o, n)
    ELSE PermuterGet(h, o, n)

Get(h, o) == GetFrom(h, o, 0)

----------------------------------------------------------------------------
(* iter() *)

RECURSIVE Iter(_, _)
RECURSIVE IterAll(_, _, _)

\* GetIndependentGenerators that leaves no generator out
GetIndependentGeneratorsAll(h, gens) == gens

\* Permuter.get_independent_generators
RECURSIVE GetIndependentGenerators(_, _)
GetIndependentGenerators(h, gens) ==
    IF gens = <<>> THEN <<>>
    ELSE (IF IsDependent(h, Head(gens)) THEN <<>> ELSE <<Head(gens)>>)
         \o GetIndependentGenerators(h, Tail(gens))

\* [iter(_) for _ in independents], from generator i on
IterAll(h, gens, i) ==
    IF i > Len(gens) THEN h
    ELSE IterAll(Iter(h, gens[i]), gens, i + 1)

\* Permuter._update_independent_generators
UpdateIndependentGenerators(h, o) ==
    LET independents == GetIndependentGenerators(h, h[o].gens)
        h1 == IterAll(h, independents, 1)
    IN [h1 EXCEPT ![o].indep = independents, ![o].step = "new"]

\* IterValueIter that keeps the iterator the generator has, if it has one
IterValueIterResumes(h, o) ==
    [h EXCEPT ![o].pos = IF h[o].pos # NoIter THEN h[o].pos ELSE 0]

\* IterValueGenerator.__iter__: iter(self._values) is a new iterator over a
\* list, and the generator object itself, where it stands, over a generator
IterValueIter(h, o) ==
    [h EXCEPT ![o].pos = IF h[o].lazy /\ h[o].pos # NoIter THEN h[o].pos ELSE 0]

\* __iter__ of each class; ValueGenerator.__iter__ returns self
Iter(h, o) ==
    IF h[o].kind = "iter" THEN IterValueIter(h, o)
    ELSE IF h[o].kind = "dep" THEN h
    ELSE UpdateIndependentGenerators(h, o)

\* Permuter.__init__
Permuter(h, o) == UpdateIndependentGenerators(h, o)

----------------------------------------------------------------------------
(* next() *)

RECURSIVE ZipAll(_, _, _)
RECURSIVE ZipAllLastFirst(_, _, _)
RECURSIVE ProductStart(_, _, _)
RECURSIVE ProductResume(_, _, _)
RECURSIVE ProductLoop(_, _, _, _)

\* Dec with the decrement forgotten
DecForgotten(l) == l

\* self._limit - 1, where float('inf') - 1 == float('inf')
Dec(l) == IF l = Inf THEN Inf ELSE l - 1

\* ValueGeneratorNext that counts the call that finds the limit at 0 as well
ValueGeneratorNextCountsDown(h, o) ==
    IF h[o].limit = 0 THEN Raise([h EXCEPT ![o].limit = Dec(h[o].limit)], "StopIteration")
    ELSE Get([h EXCEPT ![o].limit = Dec(h[o].limit)], o)

\* ValueGenerator.__next__
ValueGeneratorNext(h, o) ==
    IF h[o].limit = 0 THEN Raise(h, "StopIteration")
    ELSE Get([h EXCEPT ![o].limit = Dec(h[o].limit)], o)

\* IterValueGenerator.__next__: next(self._iter) on a list iterator, then the
\* limit check of the base class
IterValueNext(h, o) ==
    IF h[o].pos = NoIter THEN Raise(h, "TypeError")
    ELSE IF h[o].pos >= Len(h[o].values) THEN Raise(h, "StopIteration")
    ELSE LET h1 == [h EXCEPT ![o].cached = h[o].values[h[o].pos + 1],
                             ![o].pos = h[o].pos + 1]
             r == ValueGeneratorNext(h1, o)
         IN IF r.err # "ok" THEN r ELSE Ret(r.h, r.h[o].cached)

\* ZipAll where only the first generator's StopIteration ends the pass
ZipAllFirstDecides(h, gens, i) ==
    IF i > Len(gens) THEN Ret(h, NoneVal)
    ELSE LET r == Next(h, gens[i]) IN
         IF r.err = "ok" \/ (r.err = "StopIteration" /\ i > 1)
         THEN ZipAll(r.h, gens, i + 1)
         ELSE r

\* ZipAll that steps the generators from the last to the first
ZipAllLastFirst(h, gens, i) ==
    IF i > Len(gens) THEN Ret(h, NoneVal)
    ELSE LET r == Next(h, gens[Len(gens) - i + 1]) IN
         IF r.err # "ok" THEN r ELSE ZipAllLastFirst(r.h, gens, i + 1)

\* Zip.step_generator, one pass of "for generator in generators: next(generator)"
\* from generator i on
ZipAll(h, gens, i) ==
    IF i > Len(gens) THEN Ret(h, NoneVal)
    ELSE LET r == Next(h, gens[i]) IN
         IF r.err # "ok" THEN r ELSE ZipAll(r.h, gens, i + 1)

\* Zip.step_generator resumed by next(self._step): it yields after stepping
\* every generator, returns on StopIteration and dies on any other exception.
ZipStepGenerator(h, o) ==
    LET r == ZipAll(h, h[o].indep, 1) IN
    IF r.err = "ok" THEN Ret([r.h EXCEPT ![o].step = "susp"], NoneVal)
    ELSE Raise([r.h EXCEPT ![o].step = "done"], r.err)

\* Longest run of next(first) calls in one loop of Product.step_generator
\* that a terminating step can make
SpinBound == MaxLen * MaxLen + MaxSpin

\* ProductStart where the loop over first does not start first afresh
ProductStartNoRestart(h, gens, i) ==
    IF i > Len(gens) THEN Ret(h, NoneVal)
    ELSE ProductLoop(h, gens, i, SpinBound)

\* Product.step_generator(generators[i:]) resumed for the first time:
\* "yield ()" when no generator is left, else "for item in first" calls
\* iter(first) and enters the loop.
ProductStart(h, gens, i) ==
    IF i > Len(gens) THEN Ret(h, NoneVal)
    ELSE ProductLoop(Iter(h, gens[i]), gens, i, SpinBound)

\* ProductResume that takes the next item of its own loop before it resumes
\* the inner generator
ProductResumeOuterFirst(h, gens, i) ==
    IF i > Len(gens) THEN Raise(h, "StopIteration")
    ELSE ProductLoop(h, gens, i, SpinBound)

\* Product.step_generator(generators[i:]) resumed at its yield: the inner
\* generator is resumed first; when it returns, the loop takes the next item.
ProductResume(h, gens, i) ==
    IF i > Len(gens) THEN Raise(h, "StopIteration")
    ELSE LET r == ProductResume(h, gens, i + 1) IN
         IF r.err # "StopIteration" THEN r
         ELSE ProductLoop(r.h, gens, i, SpinBound)

\* "for item in first: for items in self.step_generator(rest): yield"
\* at the point where the outer loop calls next(first)
ProductLoop(h, gens, i, fuel) ==
    IF fuel = 0 THEN Raise(h, "NoReturn")
    ELSE LET r == Next(h, gens[i]) IN
         IF r.err # "ok" THEN r
         ELSE LET s == ProductStart(r.h, gens, i + 1) IN
              IF s.err # "StopIteration" THEN s
              ELSE ProductLoop(s.h, gens, i, fuel - 1)

\* Product.step_generator resumed by next(self._step)
ProductStepGenerator(h, o) ==
    LET r == IF h[o].step = "new" THEN ProductStart(h, h[o].indep, 1)
             ELSE ProductResume(h, h[o].indep, 1)
    IN IF r.err = "ok" THEN Ret([r.h EXCEPT ![o].step = "susp"], NoneVal)
       ELSE Raise([r.h EXCEPT ![o].step = "done"], r.err)

\* StepNext that makes a new step generator when the old one has returned
StepNextRestarts(h, o) ==
    LET h1 == IF h[o].step = "done" THEN UpdateIndependentGenerators(h, o) ELSE h IN
    IF h1[o].kind = "zip" THEN ZipStepGenerator(h1, o)
    ELSE ProductStepGenerator(h1, o)

\* next(self._step)
StepNext(h, o) ==
    IF h[o].step = "done" THEN Raise(h, "StopIteration")
    ELSE IF h[o].kind = "zip" THEN ZipStepGenerator(h, o)
    ELSE ProductStepGenerator(h, o)

\* Permuter.__next__
PermuterNext(h, o) ==
    LET s == StepNext(h, o) IN
    IF s.err # "ok" THEN s
    ELSE IF s.h[o].limit = 0
         THEN Raise([s.h EXCEPT ![o].step = "done"], "StopIteration")
         ELSE Get([s.h EXCEPT ![o].limit = Dec(s.h[o].limit)], o)

Next(h, o) ==
    IF h[o].kind = "iter" THEN IterValueNext(h, o)
    ELSE IF h[o].kind = "dep" THEN ValueGeneratorNext(h, o)
    ELSE PermuterNext(h, o)

\* ValueGenerator.name
Name(h, o) == h[o].name

\* SetName that leaves the name as it was
SetNameForgotten(h, o, name) == h

\* ValueGenerator.set_name
SetName(h, o, name) == [h EXCEPT ![o].name = name]

\* ValueGenerator.set_limit
SetLimit(h, o, limit) == [h EXCEPT ![o].limit = limit]

----------------------------------------------------------------------------
(* make_dependent *)

\* next((_ for _ in ptr._generators if _.name() == component), None)
RECURSIVE FoundGen(_, _, _)
FoundGen(h, gens, component) ==
    IF gens = <<>> THEN Null
    ELSE IF h[Head(gens)].name = component THEN Head(gens)
    ELSE FoundGen(h, Tail(gens), component)

\* Permuter._resolve_child: the loop over path.split('.'), with obj the object
\* reached so far and ptr the permuter it was found in
RECURSIVE ResolveFrom(_, _, _, _)
ResolveFrom(h, ptr, obj, path) ==
    IF path = <<>> THEN [err |-> "ok", ptr |-> ptr, obj |-> obj]
    ELSE IF ~IsPermuter(h, obj)
         THEN [err |-> "MessageNotFound", ptr |-> Null, obj |-> Null]
    ELSE LET found == FoundGen(h, h[obj].gens, Head(path)) IN
         IF found = Null
         THEN [err |-> "MessageNotFound", ptr |-> Null, obj |-> Null]
         ELSE ResolveFrom(h, obj, found, Tail(path))

ResolveChild(h, o, path) == ResolveFrom(h, Null, o, path)

\* container.index(src)
Index(container, src) ==
    CHOOSE i \in 1..Len(container) :
        container[i] = src /\ \A j \in 1..(i - 1) : container[j] # src

\* Substitute that takes src out of the list and puts the new generator last
SubstituteLast(h, ptr, src, dest, action) ==
    LET new == Len(h) + 1
        others == SelectSeq(h[ptr].gens, LAMBDA g : g # src)
    IN Append([h EXCEPT ![ptr].gens = Append(others, new)],
              DependentValueGenerator(h[src].name, dest, action))

\* container[idx] = DependentValueGenerator(src.name(), dest, action)
Substitute(h, ptr, src, dest, action) ==
    LET idx == Index(h[ptr].gens, src)
        new == Len(h) + 1
    IN Append([h EXCEPT ![ptr].gens[idx] = new],
              DependentValueGenerator(h[src].name, dest, action))

\* MakeDependent that replaces the source before it resolves the target
MakeDependentSourceFirst(h, o, source, target, action) ==
    IF h[o].gens = <<>> THEN Ret(h, NoneVal)
    ELSE LET s == ResolveChild(h, o, source) IN
         IF s.err # "ok" THEN Raise(h, s.err)
         ELSE LET h1 == Substitute(h, s.ptr, s.obj, Null, action)
                  d == ResolveChild(h1, o, target)
              IN IF d.err # "ok" THEN Raise(h1, d.err)
                 ELSE Ret(UpdateIndependentGenerators(
                              [h1 EXCEPT ![Len(h1)].target = d.obj], o),
                          NoneVal)

\* MakeDependent that recomputes the independent generators and the step
\* generator of the permuter it is called on without calling iter() on them
MakeDependentShallow(h, o, source, target, action) ==
    IF h[o].gens = <<>> THEN Ret(h, NoneVal)
    ELSE LET s == ResolveChild(h, o, source) IN
         IF s.err # "ok" THEN Raise(h, s.err)
         ELSE LET d == ResolveChild(h, o, target) IN
              IF d.err # "ok" THEN Raise(h, d.err)
              ELSE LET h1 == Substitute(h, s.ptr, s.obj, d.obj, action) IN
                   Ret([h1 EXCEPT ![o].indep = GetIndependentGenerators(h1, h1[o].gens),
                                  ![o].step = "new"],
                       NoneVal)

\* Permuter.make_dependent
MakeDependent(h, o, source, target, action) ==
    IF h[o].gens = <<>> THEN Ret(h, NoneVal)
    ELSE LET s == ResolveChild(h, o, source) IN
         IF s.err # "ok" THEN Raise(h, s.err)
         ELSE LET d == ResolveChild(h, o, target) IN
              IF d.err # "ok" THEN Raise(h, d.err)
              ELSE Ret(UpdateIndependentGenerators(
                           Substitute(h, s.ptr, s.obj, d.obj, action), o),
                       NoneVal)

----------------------------------------------------------------------------
(* The programs: a caller builds generators, configures them, then iterates *)

\* The source sequence of the j-th IterValueGenerator, of length n
Vals(j, n) == [i \in 1..n |-> 10 * j + i]

LeafNames == <<"a", "b", "c">>

\* kind("root", a, b, ..., limit=limit) over IterValueGenerators whose source
\* sequences have lengths lens
Flat(kind, lens, limit) ==
    LET n == Len(lens)
        root == [ValueGenerator(kind, "root", limit)
                     EXCEPT !.gens = [i \in 1..n |-> i + 1]]
        h == <<root>> \o [i \in 1..n |->
                              IterValueGenerator(LeafNames[i], Vals(i, lens[i]))]
    IN Permuter(h, Root)

SubNames == <<"x", "y">>

\* kind("root", a, subkind("sub", x, ...)): lens[1] is the length of a's
\* source sequence, the others those of the children of sub
Nested(kind, subkind, lens) ==
    LET n == Len(lens) - 1
        root == [ValueGenerator(kind, "root", Inf) EXCEPT !.gens = <<2, 3>>]
        sub == [ValueGenerator(subkind, "sub", Inf)
                    EXCEPT !.gens = [i \in 1..n |-> i + 3]]
        h == <<root, IterValueGenerator("a", Vals(1, lens[1])), sub>>
             \o [i \in 1..n |->
                     IterValueGenerator(SubNames[i], Vals(i + 1, lens[i + 1]))]
    IN Permuter(Permuter(h, 3), Root)

\* kind("root", a, b, DependentValueGenerator("d", target=a, action=f))
WithDependent(kind, lens, f) ==
    LET root == [ValueGenerator(kind, "root", Inf) EXCEPT !.gens = <<2, 3, 4>>]
        h == <<root,
               IterValueGenerator("a", Vals(1, lens[1])),
               IterValueGenerator("b", Vals(2, lens[2])),
               DependentValueGenerator("d", 2, f)>>
    IN Permuter(h, Root)

\* An IterValueGenerator and a DependentValueGenerator on it, in no permuter
Streams(n, f) ==
    <<IterValueGenerator("a", Vals(1, n)), DependentValueGenerator("d", Root, f)>>

\* _float_generator: an IterValueGenerator over the generator get_floats returns
FloatGenerator(n) == <<OverGenerator("a", Vals(1, n))>>

PermuterKinds == {"zip", "product"}
Lens(n) == [1..n -> 0..MaxLen]
Limits == {Inf} \cup 0..MaxLimit

\* What a caller that wires no dependency builds
PlainHeaps ==
    {Flat(k, l, lim) : k \in PermuterKinds, l \in UNION {Lens(n) : n \in 0..3},
                       lim \in Limits}
    \cup {Nested(k, sk, l) : k \in PermuterKinds, sk \in PermuterKinds, l \in Lens(3)}
    \cup {WithDependent(k, l, f) : k \in PermuterKinds, l \in Lens(2), f \in Transforms}
    \cup {Streams(n, f) : n \in 0..MaxLen, f \in Transforms}
    \cup {FloatGenerator(n) : n \in 0..MaxLen}

\* What a caller that wires dependencies builds
WiredHeaps ==
    {Flat(k, <<MaxLen, MaxLen, MaxLen>>, Inf) : k \in PermuterKinds}
    \cup {Nested(k, sk, <<MaxLen, MaxLen>>) : k \in PermuterKinds, sk \in PermuterKinds}
    \cup {Flat(k, <<>>, Inf) : k \in PermuterKinds}

\* What a caller that renames generators builds
RenamedHeaps ==
    {Nested(k, sk, <<MaxLen, MaxLen>>) : k \in PermuterKinds, sk \in PermuterKinds}

\* The names the caller hands to set_name
NewNames == {"q"}

\* The dotted paths the caller hands to make_dependent, split at the dots
Paths == {<<"a">>, <<"b">>, <<"c">>, <<"sub">>, <<"sub", "x">>,
          <<"q">>, <<"a", "x">>}

\* The callables the caller hands to make_dependent
WireTransforms == {"increment_by_one"}

\* The objects the caller calls iter(), next(), get() and set_limit() on: the
\* permuter it built, or each of the streams it built outside a permuter
Handles == IF IsPermuter(heap, Root) THEN {Root} ELSE DOMAIN heap

NoCall == [op |-> "none", obj |-> Null, err |-> "ok", val |-> NoneVal]

Outcome(op, o, r) == [op |-> op, obj |-> o, err |-> r.err, val |-> r.val]

\* Values next(Root) is asked for in one iteration at most
StepCap == MaxLen * MaxLen * MaxLen + MaxSteps

\* log.py is not in use
LogIdle ==
    /\ exists = FALSE /\ file = <<>> /\ size = 0 /\ logged = <<>> /\ got = <<>>

\* values.py is not in use
ValuesIdle ==
    /\ call = [fn |-> "none"] /\ stream = <<>> /\ cursor = 0 /\ remaining = 0
    /\ yielded = <<>> /\ finished = FALSE

\* protofuzz.py is not in use
FuzzIdle ==
    /\ descriptor = <<>> /\ dependencies = <<>> /\ request = [cls |-> "none"]
    /\ objects = <<>> /\ earlier = [full |-> FALSE]

Init ==
    /\ \/ heap \in PlainHeaps /\ plan = 0 /\ torename = 0
       \/ heap \in WiredHeaps /\ plan = MaxDeps /\ torename = 0
       \/ heap \in RenamedHeaps /\ plan = 0 /\ torename = MaxRenames
    /\ LogIdle /\ ValuesIdle /\ FuzzIdle
    /\ last = NoCall
    /\ phase = "cfg"
    /\ produced = <<>>
    /\ prev = [full |-> FALSE, out |-> <<>>]
    /\ runs = 0
    /\ klimit = heap[Root].limit
    /\ deps = <<>>

\* o.set_limit(k), before iteration begins
CallSetLimit(o, k) ==
    /\ phase = "cfg"
    /\ plan = 0 /\ deps = <<>> /\ torename = 0
    /\ heap' = SetLimit(heap, o, k)
    /\ last' = Outcome("set_limit", o, Ret(heap, NoneVal))
    /\ klimit' = heap'[Root].limit
    /\ UNCHANGED <<phase, produced, prev, runs, plan, deps, torename>>
    /\ UNCHANGED <<logvars, valvars, fuzzvars>>

\* o.set_name(name) on a generator of the tree, before anything else is done
CallSetName(o, name) ==
    /\ phase = "cfg"
    /\ torename > 0
    /\ o # Root
    /\ heap' = SetName(heap, o, name)
    /\ last' = Outcome("set_name", o, Ret(heap, NoneVal))
    /\ torename' = torename - 1
    /\ UNCHANGED <<phase, produced, prev, runs, klimit, plan, deps>>
    /\ UNCHANGED <<logvars, valvars, fuzzvars>>

\* root.make_dependent(source, target, action), before iteration begins
CallMakeDependent(source, target, action) ==
    /\ phase = "cfg"
    /\ plan > 0
    /\ LET r == MakeDependent(heap, Root, source, target, action) IN
       /\ heap' = r.h
       /\ last' = Outcome("make_dependent", Root, r)
       /\ deps' = IF r.err = "ok" /\ Len(r.h) > Len(heap)
                  THEN Append(deps, [source |-> source, target |-> target,
                                     action |-> action])
                  ELSE deps
       /\ plan' = IF r.err = "ok" THEN plan - 1 ELSE plan
    /\ UNCHANGED <<phase, produced, prev, runs, klimit, torename>>
    /\ UNCHANGED <<logvars, valvars, fuzzvars>>

\* iter(o); iter(Root) begins an iteration of Root
CallIter(o) ==
    /\ heap' = Iter(heap, o)
    /\ last' = Outcome("iter", o, Ret(heap, NoneVal))
    /\ IF o = Root
       THEN /\ phase = "cfg" \/ runs < MaxRuns
            /\ phase' = "run"
            /\ produced' = <<>>
            /\ prev' = IF phase = "end" THEN [full |-> TRUE, out |-> produced]
                       ELSE [full |-> FALSE, out |-> <<>>]
            /\ runs' = IF phase = "cfg" THEN 1 ELSE runs + 1
       ELSE UNCHANGED <<phase, produced, prev, runs>>
    /\ UNCHANGED <<klimit, plan, deps, torename>>
    /\ UNCHANGED <<logvars, valvars, fuzzvars>>

\* next(o); the caller collects what next(Root) returns until it raises
CallNext(o) ==
    LET r == Next(heap, o) IN
    /\ r.err # "NoReturn"
    /\ heap' = r.h
    /\ last' = Outcome("next", o, r)
    /\ IF o = Root
       THEN /\ Len(produced) < StepCap
            /\ produced' = IF r.err = "ok" /\ phase \in {"cfg", "run"}
                           THEN Append(produced, r.val)
                           ELSE produced
            /\ phase' = IF phase \in {"end", "err"} THEN phase
                        ELSE IF r.err = "ok" THEN "run"
                        ELSE IF r.err = "StopIteration" THEN "end"
                        ELSE "err"
            /\ runs' = IF phase = "cfg" THEN 1 ELSE runs
       ELSE UNCHANGED <<phase, produced, runs>>
    /\ UNCHANGED <<prev, klimit, plan, deps, torename>>
    /\ UNCHANGED <<logvars, valvars, fuzzvars>>

\* o.get()
CallGet(o) ==
    LET r == Get(heap, o) IN
    /\ heap' = r.h
    /\ last' = Outcome("get", o, r)
    /\ UNCHANGED <<phase, produced, prev, runs, klimit, plan, deps, torename>>
    /\ UNCHANGED <<logvars, valvars, fuzzvars>>

Step ==
    \/ \E o \in Handles, k \in 0..MaxLimit : CallSetLimit(o, k)
    \/ \E o \in DOMAIN heap, n \in NewNames : CallSetName(o, n)
    \/ \E s \in Paths, t \in Paths, f \in WireTransforms : CallMakeDependent(s, t, f)
    \/ \E o \in Handles : CallIter(o)
    \/ \E o \in Handles : CallNext(o)
    \/ \E o \in Handles : CallGet(o)

Spec == Init /\ [][Step]_vars

----------------------------------------------------------------------------
(* What the claims speak of *)

RootGens == heap[Root].gens

\* The children of Root, in declared order
Children == [i \in 1..Len(RootGens) |-> heap[RootGens[i]]]

\* Every child of Root is an IterValueGenerator without a limit
AllLiteral ==
    \A i \in 1..Len(RootGens) :
        heap[RootGens[i]].kind = "iter" /\ heap[RootGens[i]].limit = Inf

\* The tuples of the nested loop "for v1 in c1: for v2 in c2: ..." over the
\* source sequences of the streams cs, each value labelled with its stream
RECURSIVE NestedLoop(_)
RECURSIVE Outer(_, _, _)
Outer(c, rest, i) ==
    IF i > Len(c.values) THEN <<>>
    ELSE [k \in 1..Len(rest) |-> << <<c.name, c.values[i]>> >> \o rest[k]]
         \o Outer(c, rest, i + 1)
NestedLoop(cs) ==
    IF cs = <<>> THEN << <<>> >>
    ELSE Outer(Head(cs), NestedLoop(Tail(cs)), 1)

RECURSIVE Product(_)
Product(ns) == IF ns = <<>> THEN 1 ELSE Head(ns) * Product(Tail(ns))

Min(a, b) == IF a < b THEN a ELSE b

RECURSIVE MinOf(_)
MinOf(ns) == IF Len(ns) = 1 THEN ns[1] ELSE Min(Head(ns), MinOf(Tail(ns)))

SourceLens == [i \in 1..Len(RootGens) |-> Len(Children[i].values)]

ZipTuple(cs, i) == [j \in 1..Len(cs) |-> <<cs[j].name, cs[j].values[i]>>]

\* C2: a full iteration of a Zip without a limit over n >= 1
\* IterValueGenerators with source lengths c1..cn returns exactly min(ci)
\* tuples, the i-th holding the i-th element of every source sequence.
C2_ZipShortest ==
    (phase = "end" /\ heap[Root].kind = "zip" /\ klimit = Inf /\ AllLiteral
        /\ Len(RootGens) >= 1)
    => /\ Len(produced) = MinOf(SourceLens)
       /\ \A i \in 1..Len(produced) : produced[i] = ZipTuple(Children, i)

C2_Witness ==
    /\ phase = "end" /\ heap[Root].kind = "zip" /\ klimit = Inf /\ AllLiteral
    /\ Len(RootGens) = 3
    /\ SourceLens[1] > SourceLens[2]
    /\ Len(produced) = 1

\* What next(h, Root) returns, call after call, until it raises: at most n values
RECURSIVE Collect(_, _)
Collect(h, n) ==
    IF n = 0 THEN <<>>
    ELSE LET r == Next(h, Root) IN
         IF r.err # "ok" THEN <<>> ELSE <<r.val>> \o Collect(r.h, n - 1)

\* The heap with nothing taken yet from the generator objects
Unconsumed(h) ==
    [o \in DOMAIN h |-> IF h[o].lazy THEN [h[o] EXCEPT !.pos = NoIter] ELSE h[o]]

\* The sequence Root yields when iterated afresh without a limit
Natural == Collect(Iter(SetLimit(Unconsumed(heap), Root, Inf), Root), StepCap)

\* C3: a limit k set on an IterValueGenerator, a Zip or a Product before its
\* first iteration makes that iteration return exactly min(k, natural count)
\* values, the first ones of the sequence it returns without a limit; none
\* when k = 0.
C3_LimitClamps ==
    (phase = "end" /\ runs = 1 /\ klimit # Inf)
    => /\ Len(produced) = Min(klimit, Len(Natural))
       /\ produced = SubSeq(Natural, 1, Len(produced))

C3_Witness ==
    /\ phase = "end" /\ runs = 1 /\ klimit = 2
    /\ heap[Root].kind = "product"
    /\ Len(Natural) > 2
    /\ Len(produced) = 2

\* The value a tuple of (name, value) pairs holds under name
Field(t, name) == t[CHOOSE i \in 1..Len(t) : t[i][1] = name][2]

\* The value a tuple holds at a dotted path, nested tuple by nested tuple
RECURSIVE Lookup(_, _)
Lookup(t, path) ==
    IF Len(path) = 1 THEN Field(t, path[1])
    ELSE Lookup(Field(t, Head(path)), Tail(path))

\* The path names a child that is not a permuter, so that the tuples Root
\* returns hold a plain value at it
NamesValue(path) ==
    LET r == ResolveChild(heap, Root, path) IN
    r.err = "ok" /\ ~IsPermuter(heap, r.obj)

\* Dependency d holds on tuple t
Holds(d, t) == Lookup(t, d.source) = Apply(d.action, Lookup(t, d.target))

RECURSIVE Reach(_, _)
Reach(p, n) ==
    IF n = 0 THEN {p}
    ELSE LET nearer == Reach(p, n - 1) IN
         nearer \cup {deps[k].target : k \in {j \in DOMAIN deps : deps[j].source \in nearer}}

\* The declared dependencies give every source one target other than itself,
\* depend on no cycle, and name plain values
WellWired ==
    /\ \A k \in DOMAIN deps :
           /\ NamesValue(deps[k].source) /\ NamesValue(deps[k].target)
           /\ deps[k].source \notin Reach(deps[k].target, Len(deps))
    /\ \A j, k \in DOMAIN deps : j # k => deps[j].source # deps[k].source

\* C5: whatever make_dependent calls are made before iteration, in whatever
\* order, a dependent child being the target of another included, every tuple
\* returned has at each source the action applied to what it has at the
\* target, and next() does not raise the RuntimeError of a generator that
\* isn't being iterated.
C5_AnyWiringHolds ==
    WellWired
    => /\ \A i \in 1..Len(produced) : \A k \in DOMAIN deps : Holds(deps[k], produced[i])
       /\ ~(last.op = "next" /\ last.obj = Root /\ last.err = "RuntimeError")

\* C6: for fixed children, dependencies and any limits, two successive
\* iterations of the same permuter, each run to StopIteration, return the same
\* tuples in the same order.
C6_RepeatedIterationIdentical ==
    (prev.full /\ phase = "end" /\ IsPermuter(heap, Root)) => produced = prev.out

\* C7: get() on any generator, whether an IterValueGenerator, a
\* DependentValueGenerator or a Permuter, changes nothing of any object (no
\* cached value, limit, position, target or child), and a second get() right
\* after it ends the same way with the same value.
C7_GetChangesNothing ==
    \A o \in DOMAIN heap :
        LET r == Get(heap, o) IN
        /\ r.h = heap
        /\ Get(r.h, o) = r

C7_Witness ==
    /\ last.op = "get" /\ last.obj = Root /\ last.err = "ok"
    /\ heap[Root].kind = "product"
    /\ \E g \in 1..Len(RootGens) : IsDependent(heap, RootGens[g])
    /\ \E g \in 1..Len(RootGens) : IsPermuter(heap, RootGens[g])
    /\ Len(produced) = 2
    /\ last.val = produced[2]

\* The generators are as constructed: nothing was taken from any of them and
\* no dependency was wired
Fresh ==
    /\ deps = <<>>
    /\ \A o \in DOMAIN heap : heap[o].cached = NoneVal /\ heap[o].step \in {"", "new"}

\* C8: get() on a generator that was never advanced raises the RuntimeError
\* of a generator that isn't being iterated, be it an IterValueGenerator, a
\* DependentValueGenerator whose target was never advanced, or a Permuter
\* with any number of children, none included.
C8_FreshGetRaises ==
    Fresh => \A o \in DOMAIN heap : Get(heap, o).err = "RuntimeError"

\* v is the tuple of permuter o: one (name, value) pair for each generator of
\* o, in the order of o's list, the value of a permuter in it being that
\* permuter's own tuple and the value of any other generator its own get()
RECURSIVE ShapeOK(_, _)
ShapeOK(o, v) ==
    LET gens == heap[o].gens IN
    /\ Len(v) = Len(gens)
    /\ \A i \in 1..Len(gens) :
           /\ Len(v[i]) = 2
           /\ v[i][1] = heap[gens[i]].name
           /\ IF IsPermuter(heap, gens[i])
              THEN /\ ShapeOK(gens[i], v[i][2])
                   /\ v[i][2] = Get(heap, gens[i]).val
              ELSE v[i][2] = Get(heap, gens[i]).val

\* C9: after every next() of a permuter that returns, its get() is a sequence
\* of (name, value) pairs, one for each immediate child, dependent or not, in
\* declared order; the value of a nested permuter is that permuter's own
\* get(), a tuple of pairs kept whole.
C9_TupleShape ==
    (IsPermuter(heap, Root) /\ last.op = "next" /\ last.obj = Root /\ last.err = "ok")
    => /\ Get(heap, Root).err = "ok"
       /\ Get(heap, Root).val = last.val
       /\ ShapeOK(Root, last.val)

C9_Witness ==
    /\ IsPermuter(heap, Root) /\ last.op = "next" /\ last.obj = Root /\ last.err = "ok"
    /\ Len(RootGens) = 2
    /\ IsDependent(heap, RootGens[1])
    /\ IsPermuter(heap, RootGens[2]) /\ Len(heap[RootGens[2]].gens) = 1
    /\ Len(last.val[2][2]) = 1
    /\ Len(produced) = 2

\* The step is a make_dependent call that returned
Wired == Len(deps') = Len(deps) + 1

\* What a make_dependent call that returned did to the tree: the call was for
\* dependency d, whose source was generator src of permuter ptr's list
Replaced(d, ptr, src, dest) ==
    LET new == Len(heap') IN
    /\ Len(heap') = Len(heap) + 1
    /\ heap'[new].kind = "dep"
    /\ heap'[new].name = heap[src].name
    /\ heap'[new].target = dest
    /\ heap'[new].action = d.action
    /\ \A o \in DOMAIN heap :
           /\ heap'[o].kind = heap[o].kind
           /\ heap'[o].name = heap[o].name
           /\ heap'[o].values = heap[o].values
           /\ heap'[o].limit = heap[o].limit
           /\ heap'[o].target = heap[o].target
           /\ heap'[o].action = heap[o].action
           /\ Len(heap'[o].gens) = Len(heap[o].gens)
           /\ \A i \in 1..Len(heap[o].gens) :
                  /\ heap'[o].gens[i] =
                         IF o = ptr /\ i = Index(heap[ptr].gens, src)
                         THEN new ELSE heap[o].gens[i]
                  /\ heap'[heap'[o].gens[i]].name = heap[heap[o].gens[i]].name

\* C10: a make_dependent(source, target, action) that returns puts, in the
\* list of the permuter that holds the source generator and at the source's
\* index, a DependentValueGenerator with the source's name; every permuter
\* of the tree keeps the number, order and names of its generators, and every
\* generator but the source is the object it was.
C10_SourceReplacedInPlace ==
    [][Wired =>
          LET d == deps'[Len(deps')]
              s == ResolveChild(heap, Root, d.source)
              t == ResolveChild(heap, Root, d.target)
          IN s.err = "ok" /\ t.err = "ok" /\ Replaced(d, s.ptr, s.obj, t.obj)]_vars

C10_Witness ==
    /\ last.op = "make_dependent" /\ last.err = "ok"
    /\ Len(deps) = 2
    /\ deps[1].source = <<"a">> /\ deps[1].target = <<"sub", "x">>
    /\ deps[2].source = <<"sub", "x">> /\ deps[2].target = <<"sub">>
    /\ heap[Len(heap)].kind = "dep" /\ heap[Len(heap)].name = "x"
    /\ heap[3].gens = <<Len(heap)>>

\* Some component of the path names no generator of the permuter reached by
\* the components before it
RECURSIVE NoSuchChild(_, _, _)
NoSuchChild(h, o, path) ==
    IF path = <<>> \/ ~IsPermuter(h, o) THEN FALSE
    ELSE LET found == FoundGen(h, h[o].gens, Head(path)) IN
         IF found = Null THEN TRUE ELSE NoSuchChild(h, found, Tail(path))

\* The step is the call root.make_dependent(s, t, f)
MakeDependentStep(s, t, f) == last'.op = "make_dependent" /\ CallMakeDependent(s, t, f)

\* C11: make_dependent raises MessageNotFound whenever a component of the
\* source path or of the target path names no generator of the permuter
\* reached at that point, on whatever permuter it is called, one that has no
\* generators included.
C11_UnresolvedPathRaises ==
    [][\A s \in Paths, t \in Paths, f \in WireTransforms :
          (MakeDependentStep(s, t, f)
              /\ (NoSuchChild(heap, Root, s) \/ NoSuchChild(heap, Root, t)))
          => last'.err = "MessageNotFound"]_vars

\* C12: a make_dependent call that raises, for an unresolved source path, an
\* unresolved target path or a leaf in the middle of a path, changes nothing:
\* every permuter's list, every dependency wired before and every position of
\* the iteration are as before the call, also when the source path resolved.
C12_FailedCallChangesNothing ==
    [][(last'.op = "make_dependent" /\ last'.err # "ok")
          => /\ heap' = heap
             /\ deps' = deps
             /\ phase' = phase /\ produced' = produced]_vars

C12_Witness ==
    /\ last.op = "make_dependent" /\ last.err = "MessageNotFound"
    /\ Len(deps) = 1
    /\ deps[1].source = <<"sub", "x">> /\ deps[1].target = <<"a">>
    /\ IsDependent(heap, heap[3].gens[1])
    /\ plan = MaxDeps - 1

\* A component of the path that is not the last one selects a generator that
\* is not a permuter
RECURSIVE LeafInside(_, _, _)
LeafInside(h, o, path) ==
    IF Len(path) < 2 \/ ~IsPermuter(h, o) THEN FALSE
    ELSE LET found == FoundGen(h, h[o].gens, Head(path)) IN
         IF found = Null THEN FALSE
         ELSE ~IsPermuter(h, found) \/ LeafInside(h, found, Tail(path))

\* C13: when a component of a dotted path that is not the last selects a leaf
\* generator, make_dependent raises an error of a kind of its own,
\* TypeMismatch, which is not the MessageNotFound of an unresolved name.
C13_LeafInsideIsTypeMismatch ==
    [][\A s \in Paths, t \in Paths, f \in WireTransforms :
          (MakeDependentStep(s, t, f) /\ heap[Root].gens # <<>>
              /\ LeafInside(heap, Root, s))
          => last'.err = "TypeMismatch"]_vars

\* The path resolves, at its last component, to a permuter
NamesPermuter(h, o, path) ==
    LET r == ResolveChild(h, o, path) IN
    r.err = "ok" /\ IsPermuter(h, r.obj)

\* C14: make_dependent raises MessageNotFound when the source path or the
\* target path resolves to a nested permuter; a nested permuter is never
\* replaced by a DependentValueGenerator nor made the target of one.
C14_PermuterPathRaises ==
    [][\A s \in Paths, t \in Paths, f \in WireTransforms :
          (MakeDependentStep(s, t, f) /\ heap[Root].gens # <<>>
              /\ (NamesPermuter(heap, Root, s) \/ NamesPermuter(heap, Root, t)))
          => /\ last'.err = "MessageNotFound"
             /\ heap' = heap]_vars

\* C15: every iteration of an IterValueGenerator without a limit that runs to
\* StopIteration, the first and each one after iter() is called again,
\* returns exactly the values it was built from, in order, whether they were
\* given as a list or as a generator such as the one get_floats returns.
C15_LiteralYieldsSource ==
    (heap[Root].kind = "iter" /\ klimit = Inf /\ phase = "end")
    => produced = heap[Root].values

\* gen.Zip("name", leaf) over a generator that exists already
ZipOver(leaf) ==
    Permuter(<<[ValueGenerator("zip", "name", Inf) EXCEPT !.gens = <<2>>], leaf>>, Root)

\* "for y in h": iter(h), then next(h) until it raises, n times at most; what
\* it returned and the heap it leaves
RECURSIVE Drain(_, _)
Drain(h, n) ==
    IF n = 0 THEN [out |-> <<>>, h |-> h]
    ELSE LET r == Next(h, Root) IN
         IF r.err # "ok" THEN [out |-> <<>>, h |-> r.h]
         ELSE LET rest == Drain(r.h, n - 1) IN
              [out |-> <<r.val>> \o rest.out, h |-> rest.h]

\* "for x in outer: for y in gen.Zip("name", leaf): emit x + y", from the
\* point where the outer loop calls next(outer), n times at most
RECURSIVE ViaZips(_, _, _)
ViaZips(outer, leaf, n) ==
    IF n = 0 THEN <<>>
    ELSE LET x == Next(outer, Root) IN
         IF x.err # "ok" THEN <<>>
         ELSE LET inner == Drain(Iter(ZipOver(leaf), Root), StepCap) IN
              [k \in 1..Len(inner.out) |-> x.val \o inner.out[k]]
              \o ViaZips(x.h, inner.h[2], n - 1)

\* C16: iterating Product(a, b) returns the same tuples, in the same order,
\* as "for x in Zip(a): for y in Zip(b): emit x + y", for all finite source
\* sequences of a and b.
C16_ProductIsNestedZips ==
    (phase = "end" /\ heap[Root].kind = "product" /\ klimit = Inf /\ AllLiteral
        /\ Len(RootGens) = 2)
    => produced = ViaZips(Iter(ZipOver(Children[1]), Root), Children[2], StepCap)

C16_Witness ==
    /\ phase = "end" /\ heap[Root].kind = "product" /\ klimit = Inf /\ AllLiteral
    /\ Len(RootGens) = 2
    /\ SourceLens = <<MaxLen, MaxLen>>
    /\ Len(produced) = MaxLen * MaxLen
    /\ produced[MaxLen][2][2] = Children[2].values[MaxLen]

\* The permuter that has generator o in its list
Parent(h, o) ==
    CHOOSE p \in DOMAIN h :
        IsPermuter(h, p) /\ \E i \in 1..Len(h[p].gens) : h[p].gens[i] = o

\* The names from Root down to generator o: its dotted path
RECURSIVE PathOf(_, _)
PathOf(h, o) ==
    IF o = Root THEN <<>> ELSE Append(PathOf(h, Parent(h, o)), Name(h, o))

\* No permuter has two generators of one name
DistinctNames(h) ==
    \A p \in DOMAIN h : \A i, j \in 1..Len(h[p].gens) :
        i # j => Name(h, h[p].gens[i]) # Name(h, h[p].gens[j])

\* The step is the call o.set_name(n)
SetNameStep(o, n) == last'.op = "set_name" /\ CallSetName(o, n)

\* C17: set_name(n) changes the label of a generator wherever it is used:
\* name() returns n, the pair the generator has in its permuter's get() is
\* labelled n, and a dotted path finds the generator under n and no longer
\* under its old name (names being distinct within each permuter).
C17_RenameEverywhere ==
    [][\A o \in DOMAIN heap, n \in NewNames :
          (SetNameStep(o, n) /\ n # Name(heap, o)
              /\ DistinctNames(heap) /\ DistinctNames(heap'))
          => LET found == ResolveChild(heap', Root, PathOf(heap', o))
                 first == Next(Iter(heap', Root), Root)
                 p == Parent(heap', o)
             IN /\ Name(heap', o) = n
                /\ PathOf(heap', o)[Len(PathOf(heap', o))] = n
                /\ found.err = "ok" /\ found.obj = o
                /\ ResolveChild(heap', Root, PathOf(heap, o)).err = "MessageNotFound"
                /\ first.err = "ok"
                /\ Get(first.h, p).val[Index(heap'[p].gens, o)][1] = n]_vars

C17_Witness ==
    /\ IsPermuter(heap, Root) /\ Len(heap) > 3
    /\ Name(heap, 3) = "q"
    /\ ResolveChild(heap, Root, <<"q", "x">>).err = "ok"
    /\ last.op = "next" /\ last.err = "ok"
    /\ last.val[2][1] = "q"
    /\ Len(produced) = 2

\* C22: a next() that raises StopIteration because the limit set has come
\* down to 0 takes and caches no further value: get() of an IterValueGenerator
\* still returns what the last next() returned and no element of its source
\* is consumed, and no generator of a permuter is stepped, each keeping the
\* value it has in the last tuple returned.
C22_StoppedNextTakesNothing ==
    [][\A o \in DOMAIN heap :
          (last'.op = "next" /\ last'.obj = o /\ last'.err = "StopIteration"
              /\ heap[o].limit = 0)
          => \A g \in DOMAIN heap :
                 /\ heap'[g].cached = heap[g].cached
                 /\ heap'[g].pos = heap[g].pos
                 /\ Get(heap', g) = Get(heap, g)]_vars

\* The generators of permuter o that are not DependentValueGenerators, in the
\* order of its list
Independent(h, o) == SelectSeq(h[o].gens, LAMBDA g : ~IsDependent(h, g))

\* next(g) would raise StopIteration
Exhausted(h, g) == Next(h, g).err = "StopIteration"

\* The step is a next(Root) on a Zip whose step generator has not returned,
\* each of whose independent generators either returns a value or is exhausted
ZipStep ==
    /\ last'.op = "next" /\ last'.obj = Root
    /\ heap[Root].kind = "zip" /\ heap[Root].step # "done"
    /\ \A i \in 1..Len(Independent(heap, Root)) :
           Next(heap, Independent(heap, Root)[i]).err \in {"ok", "StopIteration"}

\* C23: in each step of a Zip every independent generator is advanced exactly
\* once, in the order of its list, and the Zip is exhausted at the first step
\* in which an independent generator is exhausted, with no tuple for that
\* step: the generators before the exhausted one have been advanced once, the
\* ones after it not at all.
C23_ZipStepsEachOnce ==
    [][ZipStep =>
          LET ind == Independent(heap, Root)
              stopped == {i \in 1..Len(ind) : Exhausted(heap, ind[i])}
              first == IF stopped = {} THEN Len(ind) + 1
                       ELSE CHOOSE i \in stopped : \A j \in stopped : i <= j
              advanced == {ind[i] : i \in 1..(first - 1)}
          IN /\ stopped # {} => (last'.err = "StopIteration" /\ produced' = produced)
             /\ (stopped = {} /\ heap[Root].limit # 0) => last'.err # "StopIteration"
             /\ \A g \in DOMAIN heap \ {Root} :
                    /\ \A c \in advanced :
                           Next(heap, c).h[g] # heap[g] => heap'[g] = Next(heap, c).h[g]
                    /\ (\A i \in 1..Min(first, Len(ind)) : Next(heap, ind[i]).h[g] = heap[g])
                       => heap'[g] = heap[g]]_vars

C23_Witness ==
    /\ heap[Root].kind = "zip" /\ Len(RootGens) = 3
    /\ last.op = "next" /\ last.obj = Root /\ last.err = "StopIteration"
    /\ Len(produced) = 1
    /\ heap[2].pos = 2 /\ heap[3].pos = 1 /\ heap[4].pos = 1
    /\ Len(heap[4].values) = 2

\* The step is a get() or a next() called on DependentValueGenerator o
ReadsDependent(o) ==
    /\ last'.op \in {"get", "next"} /\ last'.obj = o
    /\ IsDependent(heap, o)

\* The step is a get() or a next() on Root, a permuter, that returns a tuple
ReadsTuple ==
    /\ last'.op \in {"get", "next"} /\ last'.obj = Root
    /\ IsPermuter(heap, Root)
    /\ last'.err = "ok"

\* C24: reading or advancing a DependentValueGenerator never advances its
\* target and changes no other generator, and the value read is the action
\* applied to what get() of the target returns at that moment; the same holds
\* of the value a dependent generator has in a tuple its permuter returns.
C24_DependentFollowsTarget ==
    [][/\ \A o \in DOMAIN heap :
              ReadsDependent(o)
              => LET t == Get(heap, heap[o].target) IN
                 /\ \A g \in DOMAIN heap \ {o} : heap'[g] = heap[g]
                 /\ heap'[o].cached = NoneVal
                 /\ last'.err = "ok"
                    => last'.val = Apply(heap[o].action, t.val)
                 /\ (t.err = "ok" /\ (last'.op = "get" \/ heap[o].limit # 0))
                    => last'.err = "ok"
       /\ ReadsTuple
          => \A i \in 1..Len(heap'[Root].gens) :
                 LET d == heap'[Root].gens[i] IN
                 IsDependent(heap', d)
                 => /\ heap'[d] = heap[d]
                    /\ last'.val[i][2] = Apply(heap'[d].action,
                                               Get(heap', heap'[d].target).val)]_vars

C24_Witness ==
    /\ ~IsPermuter(heap, Root) /\ Len(heap) = 2 /\ IsDependent(heap, 2)
    /\ last.op = "next" /\ last.obj = 2 /\ last.err = "ok"
    /\ heap[Root].pos = 1 /\ heap[Root].cached = 11
    /\ heap[2].action = "increment_by_one"
    /\ last.val = 12

\* The step is an iter(Root) on a permuter that was given no limit and has
\* returned a tuple or more since its iteration began
Restart ==
    /\ last'.op = "iter" /\ last'.obj = Root
    /\ IsPermuter(heap, Root)
    /\ klimit = Inf
    /\ produced # <<>>

\* The IterValueGenerators that drive permuter o, those of nested permuters
\* included
RECURSIVE Drivers(_, _, _)
Drivers(h, o, n) ==
    IF n = 0 THEN {}
    ELSE UNION {IF IsPermuter(h, h[o].indep[i]) THEN Drivers(h, h[o].indep[i], n - 1)
                ELSE {h[o].indep[i]} : i \in 1..Len(h[o].indep)}

C28_IterationTerminates ==
    [][(/\ last'.op = "next" /\ last'.obj = Root /\ last'.err = "ok"
        /\ IsPermuter(heap, Root)
        /\ klimit = Inf)
       => heap' # heap]_vars

\* Two dependencies were made, each on the other's source: a on b, then b on a
Cyclic ==
    /\ Len(deps) = 2
    /\ deps[1].source = deps[2].target /\ deps[2].source = deps[1].target
    /\ deps[1].source # deps[1].target
    /\ NamesValue(deps[1].source) /\ NamesValue(deps[1].target)

\* C29: when two make_dependent calls make a cycle, a on b and b on a, both
\* calls succeed and the next read of the permuter's values goes round the
\* cycle without end: it neither returns a tuple nor raises the RuntimeError
\* of a generator that isn't being iterated.
C29_CycleNeverCompletes ==
    Cyclic
    => /\ Get(heap, Root).err = "RecursionError"
       /\ Next(heap, Root).err \in {"RecursionError", "NoReturn"}

\* C31: a limit set to a non-negative integer never goes below 0: each next()
\* that returns a value lowers the limit of the generator it is called on by
\* exactly 1, each next() that raises StopIteration, the limit being 0 or the
\* source at its end, leaves it as it is, and the limit of a generator that
\* has none stays float('inf') until set_limit is called.
C31_LimitCountsDown ==
    [][/\ \A o \in DOMAIN heap :
              (last'.op = "next" /\ last'.obj = o)
              => /\ last'.err = "ok"
                    => heap'[o].limit = IF heap[o].limit = Inf THEN Inf
                                        ELSE heap[o].limit - 1
                 /\ last'.err = "StopIteration" => heap'[o].limit = heap[o].limit
       /\ last'.op # "set_limit"
          => \A g \in DOMAIN heap :
                 /\ (heap[g].limit = Inf) <=> (heap'[g].limit = Inf)
                 /\ heap[g].limit # Inf => heap'[g].limit \in 0..heap[g].limit]_vars

C31_Witness ==
    /\ IsPermuter(heap, Root) /\ heap[Root].kind = "product"
    /\ klimit = 2 /\ heap[Root].limit = 0
    /\ Len(produced) = 2
    /\ last.op = "next" /\ last.obj = Root /\ last.err = "StopIteration"

\* C32: exhaustion is sticky: once a next() on an IterValueGenerator, a Zip or
\* a Product has raised StopIteration, every later next() on it raises
\* StopIteration too and returns nothing, whatever get() calls come between,
\* until iter() is called on it.
C32_ExhaustionSticky ==
    [][(phase = "end" /\ last'.op = "next" /\ last'.obj = Root)
       => /\ last'.err = "StopIteration"
          /\ last'.val = NoneVal
          /\ phase' = "end"]_vars

C32_Witness ==
    /\ ~IsPermuter(heap, Root) /\ heap[Root].kind = "iter"
    /\ klimit = 0 /\ Len(heap[Root].values) = 2
    /\ heap[Root].pos = 2
    /\ phase = "end" /\ produced = <<>>
    /\ last.op = "next" /\ last.obj = Root /\ last.err = "StopIteration"

----------------------------------------------------------------------------
(* A caller that makes dependencies while it iterates, and sets limits on
   dependent generators *)

DeepNames == <<"z", "w">>

\* kind("root", a, subkind("sub", x, subkind("in", z, w))): w has one value,
\* the other IterValueGenerators n
Deep(kind, subkind, n) ==
    LET root == [ValueGenerator(kind, "root", Inf) EXCEPT !.gens = <<2, 3>>]
        sub == [ValueGenerator(subkind, "sub", Inf) EXCEPT !.gens = <<4, 5>>]
        in == [ValueGenerator(subkind, "in", Inf) EXCEPT !.gens = <<6, 7>>]
        h == <<root, IterValueGenerator("a", Vals(1, n)), sub,
               IterValueGenerator("x", Vals(2, n)), in,
               IterValueGenerator("z", Vals(3, n)),
               IterValueGenerator("w", Vals(4, 1))>>
    IN Permuter(Permuter(Permuter(h, 5), 3), Root)

LiveHeaps ==
    {Deep(k, sk, MaxLen) : k \in PermuterKinds, sk \in PermuterKinds}
    \cup {WithDependent(k, <<MaxLen, MaxLen>>, f) : k \in PermuterKinds,
                                                   f \in WireTransforms}

\* The (source, target) pairs of paths the caller hands to make_dependent
LiveWirings ==
    {<< <<"a">>, <<"sub", "in", "w">> >>,
     << <<"sub", "x">>, <<"a">> >>,
     << <<"sub", "in", "z">>, <<"a">> >>,
     << <<"sub", "in", "z">>, <<"sub", "x">> >>,
     << <<"a">>, <<"b">> >>,
     << <<"b">>, <<"a">> >>}

\* The caller makes one dependency
LiveInit ==
    /\ heap \in LiveHeaps
    /\ plan = 1 /\ torename = 0
    /\ LogIdle /\ ValuesIdle /\ FuzzIdle
    /\ last = NoCall
    /\ phase = "cfg"
    /\ produced = <<>>
    /\ prev = [full |-> FALSE, out |-> <<>>]
    /\ runs = 0
    /\ klimit = heap[Root].limit
    /\ deps = <<>>

\* root.make_dependent(source, target, action), before or during an iteration;
\* the caller then collects the tuples of the permuter as it is now
Rewire(source, target, action) ==
    /\ plan > 0
    /\ LET r == MakeDependent(heap, Root, source, target, action) IN
       /\ heap' = r.h
       /\ last' = Outcome("make_dependent", Root, r)
       /\ deps' = IF r.err = "ok" /\ Len(r.h) > Len(heap)
                  THEN Append(deps, [source |-> source, target |-> target,
                                     action |-> action])
                  ELSE deps
       /\ plan' = IF r.err = "ok" THEN plan - 1 ELSE plan
       /\ IF r.err = "ok"
          THEN /\ phase' = IF phase = "cfg" THEN "cfg" ELSE "run"
               /\ produced' = <<>>
               /\ prev' = [full |-> FALSE, out |-> <<>>]
          ELSE UNCHANGED <<phase, produced, prev>>
    /\ UNCHANGED <<runs, klimit, torename>>
    /\ UNCHANGED <<logvars, valvars, fuzzvars>>

\* d.set_limit(k) on a DependentValueGenerator that has no limit yet
LimitDependent(d, k) ==
    /\ IsDependent(heap, d) /\ heap[d].limit = Inf
    /\ heap' = SetLimit(heap, d, k)
    /\ last' = Outcome("set_limit", d, Ret(heap, NoneVal))
    /\ UNCHANGED <<phase, produced, prev, runs, klimit, plan, deps, torename>>
    /\ UNCHANGED <<logvars, valvars, fuzzvars>>

LiveStep ==
    \/ \E w \in LiveWirings, f \in WireTransforms : Rewire(w[1], w[2], f)
    \/ \E d \in DOMAIN heap, k \in {0, MaxLimit} : LimitDependent(d, k)
    \/ CallIter(Root)
    \/ CallNext(Root)

LiveSpec == LiveInit /\ [][LiveStep]_vars

\* The heap with the DependentValueGenerators taken out of every permuter
Pruned(h) ==
    [o \in DOMAIN h |->
        IF IsPermuter(h, o)
        THEN [h[o] EXCEPT !.gens = Independent(h, o), !.indep = Independent(h, o)]
        ELSE h[o]]

\* C25: exactly the independent generators drive a permuter: iter() and every
\* next() that returns a tuple or raises StopIteration leave its generators
\* as they leave those of the same permuter without its
\* DependentValueGenerators, which returns a tuple or is exhausted at the same
\* steps, whether a dependent generator was passed to the constructor or made
\* by make_dependent, and whatever limit, 0 included, is set on it.
C25_IndependentDrive ==
    [][/\ (last'.op = "next" /\ last'.obj = Root
              /\ last'.err \in {"ok", "StopIteration"})
          => LET q == Next(Pruned(heap), Root) IN
             /\ Pruned(heap') = q.h
             /\ q.err = last'.err
             /\ \A d \in DOMAIN heap : IsDependent(heap, d) => heap'[d] = heap[d]
       /\ (last'.op = "iter" /\ last'.obj = Root)
          => Pruned(heap') = Iter(Pruned(heap), Root)
       /\ \A o \in DOMAIN heap' :
              IsPermuter(heap', o) /\ (\E p \in DOMAIN heap' : \E i \in DOMAIN heap'[p].gens : heap'[p].gens[i] = o \/ o = Root)
              => heap'[o].indep = Independent(heap', o)]_vars

C25_Witness ==
    /\ phase = "end" /\ Len(produced) = MaxLen
    /\ heap[Root].kind = "zip"
    /\ Len(deps) = 1 /\ deps[1].source = <<"sub", "x">>
    /\ \E d \in DOMAIN heap : IsDependent(heap, d) /\ heap[d].limit = 0
    /\ last.op = "next" /\ last.err = "StopIteration"

\* The generators of the tree of permuter o, o included
RECURSIVE Tree(_, _, _)
Tree(h, o, n) ==
    IF n = 0 THEN {o}
    ELSE {o} \cup UNION {Tree(h, h[o].gens[i], n - 1) : i \in DOMAIN h[o].gens}

\* The step is a make_dependent on Root that replaced a generator
MadeDependent ==
    /\ last'.op = "make_dependent" /\ last'.err = "ok"
    /\ Len(heap') > Len(heap)

\* C26: after a successful make_dependent on the root, at whatever depth the
\* source is and whether or not an iteration is going on, the permuter that
\* holds the source has its independent generators and its step generator
\* made anew: the replaced IterValueGenerator is not among them and is never
\* stepped again, every IterValueGenerator that drives the root stands before
\* its first element, and the next next() of the root returns what the first
\* next() of a new iteration returns.
C26_RewireRederives ==
    [][/\ MadeDependent
          => LET src == ResolveChild(heap, Root, deps'[Len(deps')].source)
                 r == Next(heap', Root)
                 fresh == Next(Iter(heap', Root), Root)
             IN /\ heap'[src.ptr].indep = Independent(heap', src.ptr)
                /\ \A i \in DOMAIN heap'[src.ptr].indep :
                       heap'[src.ptr].indep[i] # src.obj
                /\ heap'[src.ptr].step = "new"
                /\ src.obj \notin Tree(heap', Root, Len(heap'))
                /\ \A g \in Drivers(heap', Root, Len(heap')) : heap'[g].pos = 0
                /\ r = fresh
       /\ \A o \in DOMAIN heap :
              (heap[o].kind = "iter" /\ o \notin Tree(heap, Root, Len(heap)))
              => heap'[o] = heap[o]]_vars

C26_Witness ==
    /\ Len(heap) = 8 /\ heap[Root].kind = "product"
    /\ Len(deps) = 1 /\ deps[1].source = <<"sub", "in", "z">>
    /\ heap[6].cached = 32 /\ 6 \notin Tree(heap, Root, Len(heap))
    /\ last.op = "next" /\ last.err = "ok"
    /\ Len(produced) = 1
    /\ heap[2].cached = 11 /\ heap[4].cached = 21

----------------------------------------------------------------------------
(* protofuzz/log.py: LastNMessagesLogger *)

\* pickle.dump(obj, log_file, pickle.HIGHEST_PROTOCOL) of a small integer:
\* PROTO 5, BININT1 obj, STOP
PickleDump(obj) == <<128, 5, 75, obj, 46>>

\* pickle.load(log_file): the object of the first pickle of the bytes, and the
\* bytes after it
PickleLoad(bytes) ==
    IF Len(bytes) >= 5 /\ bytes[1] = 128 /\ bytes[2] = 5 /\ bytes[3] = 75 /\ bytes[5] = 46
    THEN [err |-> "ok", obj |-> bytes[4], rest |-> SubSeq(bytes, 6, Len(bytes))]
    ELSE [err |-> "UnpicklingError", obj |-> 0, rest |-> <<>>]

\* while log_file.peek(): entries.append(pickle.load(log_file))
RECURSIVE ReadEntries(_)
ReadEntries(bytes) ==
    IF bytes = <<>> THEN <<>>
    ELSE LET p == PickleLoad(bytes) IN
         IF p.err # "ok" THEN <<>> ELSE <<p.obj>> \o ReadEntries(p.rest)

\* LastNMessagesLogger.get
LoggerGet(ex, bytes) == IF ~ex THEN <<>> ELSE ReadEntries(bytes)

\* LastN that keeps the first n entries
FirstN(entries, n) == SubSeq(entries, 1, IF Len(entries) < n THEN Len(entries) ELSE n)

\* entries[-n:] for n > 0
LastN(entries, n) ==
    IF Len(entries) <= n THEN entries
    ELSE SubSeq(entries, Len(entries) - n + 1, Len(entries))

\* LastNMessagesLogger._write_entries: the bytes of the file after it
RECURSIVE WriteEntries(_)
WriteEntries(entries) ==
    IF entries = <<>> THEN <<>>
    ELSE PickleDump(Head(entries)) \o WriteEntries(Tail(entries))

\* LastNMessagesLogger.log: the bytes of the file after it
LoggerLog(ex, bytes, n, obj) ==
    LET entries == Append(LoggerGet(ex, bytes), obj) IN
    WriteEntries(IF n > 0 THEN LastN(entries, n) ELSE entries)

\* gen.py is not in use
GenIdle ==
    /\ heap = <<>> /\ last = NoCall /\ phase = "cfg" /\ produced = <<>>
    /\ prev = [full |-> FALSE, out |-> <<>>] /\ runs = 0 /\ klimit = Inf
    /\ plan = 0 /\ deps = <<>> /\ torename = 0

\* LastNMessagesLogger(filename, size) on a file that is absent or empty
LogInit ==
    /\ exists \in BOOLEAN
    /\ file = <<>>
    /\ size \in 0..MaxSize
    /\ logged = <<>>
    /\ got = <<>>
    /\ GenIdle /\ ValuesIdle /\ FuzzIdle

\* logger.log(obj)
CallLog(obj) ==
    /\ Len(logged) < MaxLogs
    /\ file' = LoggerLog(exists, file, size, obj)
    /\ exists' = TRUE
    /\ logged' = Append(logged, obj)
    /\ UNCHANGED <<size, got>>
    /\ UNCHANGED <<genvars, valvars, fuzzvars>>

\* logger.get()
CallLoggerGet ==
    /\ got' = LoggerGet(exists, file)
    /\ UNCHANGED <<exists, file, size, logged>>
    /\ UNCHANGED <<genvars, valvars, fuzzvars>>

LogNext ==
    \/ \E obj \in 1..MaxObj : CallLog(obj)
    \/ CallLoggerGet

LogSpec == LogInit /\ [][LogNext]_vars

\* The last min(n, m) of the m objects logged, or all of them when n = 0
Kept(n) ==
    IF n = 0 THEN logged
    ELSE SubSeq(logged, Len(logged) - Min(n, Len(logged)) + 1, Len(logged))

\* C18: after any log() calls on a file that was absent or empty, get() of a
\* LastNMessagesLogger of size N > 0 returns the last min(N, m) of the m
\* objects logged, in the order logged, never more than N; of size 0, all m
\* of them; and get() leaves the entries stored as they are.
C18_LastNKept ==
    /\ [](/\ LoggerGet(exists, file) = Kept(size)
          /\ size > 0 => Len(LoggerGet(exists, file)) = Min(size, Len(logged)))
    /\ [][CallLoggerGet => (got' = Kept(size) /\ file' = file /\ exists' = exists)]_vars

C18_Witness ==
    /\ size = MaxSize
    /\ Len(logged) = MaxLogs
    /\ logged[1] # logged[MaxLogs]
    /\ got = SubSeq(logged, MaxLogs - MaxSize + 1, MaxLogs)
    /\ Len(file) = 5 * MaxSize

----------------------------------------------------------------------------
(* protofuzz/values.py: get_strings, get_integers *)

Whitespace == {" ", "\n"}

\* str.strip() of a line, a sequence of characters
RECURSIVE LStrip(_)
LStrip(line) ==
    IF line # <<>> /\ Head(line) \in Whitespace THEN LStrip(Tail(line)) ELSE line

RECURSIVE RStrip(_)
RStrip(line) ==
    IF line # <<>> /\ line[Len(line)] \in Whitespace
    THEN RStrip(SubSeq(line, 1, Len(line) - 1))
    ELSE line

Strip(line) == RStrip(LStrip(line))

\* _fuzzdb_get_strings: what it yields over the lines of one file
RECURSIVE FuzzdbGetStrings(_, _)
FuzzdbGetStrings(lines, max_len) ==
    IF lines = <<>> THEN <<>>
    ELSE LET line == Head(lines)
             string == Strip(line)
             rest == FuzzdbGetStrings(Tail(lines), max_len)
         IN IF string = <<>> \/ Head(string) = "#" THEN rest
            ELSE IF max_len # 0 /\ Len(line) > max_len THEN rest
            ELSE <<string>> \o rest

\* LimitHelperNext that returns when the limit has come down to 0
LimitHelperNextZero(items, cur, lim) ==
    IF cur > 0 /\ lim = 0 THEN [done |-> TRUE, cur |-> cur, lim |-> lim]
    ELSE LET l == IF cur > 0 THEN lim - 1 ELSE lim IN
         IF cur < Len(items) THEN [done |-> FALSE, cur |-> cur + 1, lim |-> l]
         ELSE [done |-> TRUE, cur |-> cur, lim |-> l]

\* _limit_helper resumed by next(), cur items taken so far: after a yield it
\* returns if limit == 1 and decrements limit otherwise, then it takes the next
\* item of the stream and yields it, or returns at the end of the stream
LimitHelperNext(items, cur, lim) ==
    IF cur > 0 /\ lim = 1 THEN [done |-> TRUE, cur |-> cur, lim |-> lim]
    ELSE LET l == IF cur > 0 THEN lim - 1 ELSE lim IN
         IF cur < Len(items) THEN [done |-> FALSE, cur |-> cur + 1, lim |-> l]
         ELSE [done |-> TRUE, cur |-> cur, lim |-> l]

\* 1 << n
RECURSIVE Shl1(_)
Shl1(n) == IF n = 0 THEN 1 ELSE 2 * Shl1(n - 1)

\* get_integers: start, stop
Start(bitwidth, unsigned) == IF unsigned THEN 0 ELSE -Shl1(bitwidth - 1)
Stop(bitwidth, unsigned) ==
    IF unsigned THEN Shl1(bitwidth) - 1 ELSE Shl1((bitwidth - 1) - 1)

\* get_integers resumed by next(): "for num in _fuzzdb_integers(limit)" up to
\* the next num it yields, or to the end
RECURSIVE GetIntegersNext(_, _, _, _, _)
GetIntegersNext(items, cur, lim, start, stop) ==
    LET r == LimitHelperNext(items, cur, lim) IN
    IF r.done THEN r
    ELSE IF items[r.cur] >= start /\ items[r.cur] <= stop THEN r
    ELSE GetIntegersNext(items, r.cur, r.lim, start, stop)

\* The lines a fuzzdb file of strings is made of
RawLines ==
    {<<"a", "\n">>, <<" ", "b", "c", "\n">>, <<"#", "a", "\n">>, <<"\n">>}

StringFiles == UNION {[1..n -> RawLines] : n \in 0..MaxLines}

\* The integers of integer-overflows.txt: every one from just below the
\* smallest a signed type of MaxBits bits holds to just above the largest an
\* unsigned one holds, ascending or descending
Lowest == -Shl1(MaxBits - 1) - 1
Highest == Shl1(MaxBits)
IntegerFiles ==
    {[i \in 1..(Highest - Lowest + 1) |-> Lowest + i - 1],
     [i \in 1..(Highest - Lowest + 1) |-> Highest - i + 1]}

\* get_strings(max_len, limit) or get_integers(bitwidth, unsigned, limit): the
\* generator object is made and nothing is taken from it yet
ValuesInit ==
    /\ \/ /\ call \in [fn : {"get_strings"}, max_len : {0, 2}, limit : 0..MaxK]
          /\ stream \in StringFiles
       \/ /\ call \in [fn : {"get_integers"}, bitwidth : 2..MaxBits,
                        unsigned : BOOLEAN, limit : 0..MaxK]
          /\ stream \in IntegerFiles
    /\ cursor = 0
    /\ remaining = call.limit
    /\ yielded = <<>>
    /\ finished = FALSE
    /\ GenIdle /\ LogIdle /\ FuzzIdle

\* next() on the generator get_strings returned
NextString ==
    /\ call.fn = "get_strings" /\ ~finished
    /\ LET strings == FuzzdbGetStrings(stream, call.max_len)
           r == LimitHelperNext(strings, cursor, remaining)
       IN /\ cursor' = r.cur
          /\ remaining' = r.lim
          /\ finished' = r.done
          /\ yielded' = IF r.done THEN yielded ELSE Append(yielded, strings[r.cur])
    /\ UNCHANGED <<call, stream>>
    /\ UNCHANGED <<genvars, logvars, fuzzvars>>

\* next() on the generator get_integers returned
NextInteger ==
    /\ call.fn = "get_integers" /\ ~finished
    /\ LET r == GetIntegersNext(stream, cursor, remaining,
                                Start(call.bitwidth, call.unsigned),
                                Stop(call.bitwidth, call.unsigned))
       IN /\ cursor' = r.cur
          /\ remaining' = r.lim
          /\ finished' = r.done
          /\ yielded' = IF r.done THEN yielded ELSE Append(yielded, stream[r.cur])
    /\ UNCHANGED <<call, stream>>
    /\ UNCHANGED <<genvars, logvars, fuzzvars>>

ValuesNext == NextString \/ NextInteger

ValuesSpec == ValuesInit /\ [][ValuesNext]_vars

\* C19: get_strings(limit=k) yields exactly min(k, available) strings for
\* k >= 1, the first ones of the unlimited stream in its order, and every
\* available string for k = 0.
C19_StringsLimited ==
    call.fn = "get_strings"
    => LET available == FuzzdbGetStrings(stream, call.max_len) IN
       /\ Len(yielded) <= Len(available)
       /\ yielded = SubSeq(available, 1, Len(yielded))
       /\ call.limit >= 1 => Len(yielded) <= call.limit
       /\ finished => Len(yielded) = IF call.limit = 0 THEN Len(available)
                                     ELSE Min(call.limit, Len(available))

C19_Witness ==
    /\ call.fn = "get_strings" /\ call.limit = 2 /\ call.max_len = 0
    /\ Len(FuzzdbGetStrings(stream, call.max_len)) = 3
    /\ finished
    /\ yielded = << <<"b", "c">>, <<"a">> >>

\* The type of that bitwidth contains n
Representable(n, bitwidth, unsigned) ==
    IF unsigned THEN 0 <= n /\ n <= Shl1(bitwidth) - 1
    ELSE -Shl1(bitwidth - 1) <= n /\ n <= Shl1(bitwidth - 1) - 1

\* C20: get_integers(bitwidth, unsigned) without a limit yields, in the order
\* of the source, exactly the source integers the type can contain: 0 to
\* 2^bitwidth - 1 when unsigned, -2^(bitwidth-1) to 2^(bitwidth-1) - 1 when
\* signed; none of them is dropped and no other is yielded.
C20_IntegersInRange ==
    (call.fn = "get_integers" /\ call.limit = 0 /\ finished)
    => yielded = SelectSeq(stream,
                           LAMBDA n : Representable(n, call.bitwidth, call.unsigned))

\* C30: get_integers(bitwidth, unsigned, limit=k) with k >= 1 yields exactly
\* min(k, r) integers, r being the number of source integers the type can
\* contain: the limit counts what is yielded, so the source integers left out
\* as out of range do not use it up.
C30_LimitCountsResults ==
    (call.fn = "get_integers" /\ call.limit >= 1 /\ finished)
    => LET inrange == SelectSeq(stream,
                          LAMBDA n : Representable(n, call.bitwidth, call.unsigned))
       IN Len(yielded) = Min(call.limit, Len(inrange))

----------------------------------------------------------------------------
(* protofuzz/protofuzz.py: ProtobufGenerator *)

\* The values of get_floats: five numbers that stand for 0.0, -1.0, 1.0,
\* -1231231231231.0123 and 123123123123123.123
Floats == <<0, -10, 10, -12, 12>>

\* _prototype_to_generator for a field that is not a message: a bool, a float
\* or an enum whose values are numbered 1..n
PrototypeToGenerator(field) ==
    IF field.type = "bool" THEN IterValueGenerator(field.name, <<1, 0>>)
    ELSE IF field.type = "float" THEN OverGenerator(field.name, Floats)
    ELSE IterValueGenerator(field.name, [i \in 1..field.n |-> i])

\* The fields of the message a field holds; none for any other field
SubFields(field) == IF field.type = "message" THEN field.message_type.fields ELSE <<>>

\* descriptor_to_generator(cls_descriptor, cls) for a message with at most one
\* field that is a message, itself of plain fields: the generators of the
\* fields follow Root in the heap, those of the inner message come last, and
\* the permuter of the inner message is renamed to the field that holds it
DescriptorToGenerator(cls_descriptor, cls) ==
    LET fields == cls_descriptor.fields
        n == Len(fields)
        inner == IF \E i \in 1..n : fields[i].type = "message"
                 THEN SubFields(fields[CHOOSE i \in 1..n : fields[i].type = "message"])
                 ELSE <<>>
        generator(i) ==
            IF fields[i].type = "message"
            THEN [ValueGenerator(cls, fields[i].message_type.name, Inf)
                      EXCEPT !.gens = [j \in 1..Len(inner) |-> n + 1 + j]]
            ELSE PrototypeToGenerator(fields[i])
        obj == [ValueGenerator(cls, cls_descriptor.name, Inf)
                    EXCEPT !.gens = [i \in 1..n |-> i + 1]]
        h0 == <<obj>> \o [i \in 1..n |-> generator(i)]
              \o [j \in 1..Len(inner) |-> PrototypeToGenerator(inner[j])]
        RECURSIVE Built(_, _)
        Built(h, i) ==
            IF i > n THEN h
            ELSE IF fields[i].type = "message"
                 THEN Built(SetName(Permuter(h, i + 1), i + 1, fields[i].name), i + 1)
                 ELSE Built(h, i + 1)
    IN Permuter(Built(h0, 1), Root)

\* "for args in self._dependencies: generator.make_dependent(*args)", from
\* dependency i on
RECURSIVE MakeAllDependent(_, _, _)
MakeAllDependent(h, ds, i) ==
    IF i > Len(ds) THEN Ret(h, NoneVal)
    ELSE LET r == MakeDependent(h, Root, ds[i].source, ds[i].target, ds[i].action) IN
         IF r.err # "ok" THEN r ELSE MakeAllDependent(r.h, ds, i + 1)

\* The field of that name
FieldNamed(cls_descriptor, name) ==
    cls_descriptor.fields[CHOOSE i \in 1..Len(cls_descriptor.fields) :
                              cls_descriptor.fields[i].name = name]

\* _fields_to_object: the message with each field assigned the value the
\* tuple has for it, the tuple of an inner message becoming a message
RECURSIVE FieldsToObject(_, _)
FieldsToObject(cls_descriptor, fields) ==
    [name \in {fields[i][1] : i \in 1..Len(fields)} |->
        IF FieldNamed(cls_descriptor, name).type = "message"
        THEN FieldsToObject(FieldNamed(cls_descriptor, name).message_type,
                            Field(fields, name))
        ELSE Field(fields, name)]

\* IterationHelperStart that sets no limit
IterationHelperStartUnlimited(cls_descriptor, iter_class, limit, ds) ==
    LET generator == DescriptorToGenerator(cls_descriptor, iter_class)
        wired == MakeAllDependent(generator, ds, 1)
    IN IF wired.err # "ok" THEN wired ELSE Ret(Iter(wired.h, Root), NoneVal)

\* ProtobufGenerator._iteration_helper up to "for fields in generator": the
\* generator it built, limited and wired, and iter() of it
IterationHelperStart(cls_descriptor, iter_class, limit, ds) ==
    LET generator == DescriptorToGenerator(cls_descriptor, iter_class)
        limited == IF limit # 0 THEN SetLimit(generator, Root, limit) ELSE generator
        wired == MakeAllDependent(limited, ds, 1)
    IN IF wired.err # "ok" THEN wired ELSE Ret(Iter(wired.h, Root), NoneVal)

\* The messages a ProtobufGenerator is made for
EnumField(name) == [name |-> name, type |-> "enum", n |-> MaxLen]
Descriptors ==
    {[name |-> "M", fields |-> <<EnumField("a"), [name |-> "b", type |-> "bool"]>>],
     [name |-> "M", fields |-> <<EnumField("a"), EnumField("b"),
                                 [name |-> "c", type |-> "float"]>>],
     [name |-> "M",
      fields |-> <<EnumField("a"),
                   [name |-> "sub", type |-> "message",
                    message_type |-> [name |-> "Sub", fields |-> <<EnumField("x")>>]]>>]}

\* What the caller hands to add_dependency
Wirings ==
    {[source |-> <<"a">>, target |-> <<"b">>, action |-> "increment_by_one"],
     [source |-> <<"b">>, target |-> <<"c">>, action |-> "increment_by_one"],
     [source |-> <<"a">>, target |-> <<"sub", "x">>, action |-> "increment_by_one"]}

\* The limits the caller hands to permute() and linear()
RequestLimits == {0, 1, MaxLimit}

\* ProtobufGenerator(descriptor)
FuzzInit ==
    /\ descriptor \in Descriptors
    /\ dependencies = <<>>
    /\ request = [cls |-> "none"]
    /\ objects = <<>>
    /\ earlier = [full |-> FALSE]
    /\ GenIdle /\ LogIdle /\ ValuesIdle

\* add_dependency(source, target, action), before the first permute() or linear()
AddDependency(d) ==
    /\ request.cls = "none"
    /\ Len(dependencies) < MaxDeps
    /\ dependencies' = Append(dependencies, d)
    /\ UNCHANGED <<descriptor, request, objects, earlier>>
    /\ UNCHANGED <<genvars, logvars, valvars>>

\* What permute() and linear() have in common: the generator object of
\* _iteration_helper is new and none of its code has run
NewRequest ==
    /\ runs < MaxRuns
    /\ objects' = <<>>
    /\ earlier' = IF request.cls # "none" /\ phase \in {"end", "err"}
                  THEN [full |-> TRUE, request |-> request, objects |-> objects,
                        phase |-> phase]
                  ELSE [full |-> FALSE]
    /\ heap' = <<>>
    /\ phase' = "cfg"
    /\ runs' = runs + 1
    /\ last' = NoCall
    /\ UNCHANGED <<descriptor, dependencies>>
    /\ UNCHANGED <<produced, prev, klimit, plan, deps, torename>>
    /\ UNCHANGED <<logvars, valvars>>

\* permute(limit)
CallPermute(limit) ==
    /\ request' = [cls |-> "product", limit |-> limit]
    /\ NewRequest

\* linear(limit)
CallLinear(limit) ==
    /\ request' = [cls |-> "zip", limit |-> limit]
    /\ NewRequest

\* next() of the generator object: the first one runs _iteration_helper from
\* its top, each one runs to the next yield or to the end
NextObject ==
    /\ request.cls # "none"
    /\ phase \in {"cfg", "run"}
    /\ LET start == IF phase = "cfg"
                    THEN IterationHelperStart(descriptor, request.cls, request.limit,
                                              dependencies)
                    ELSE Ret(heap, NoneVal)
           r == IF start.err # "ok" THEN start ELSE Next(start.h, Root)
       IN /\ r.err # "NoReturn"
          /\ heap' = r.h
          /\ last' = Outcome("next", Root, r)
          /\ phase' = IF r.err = "ok" THEN "run"
                      ELSE IF r.err = "StopIteration" THEN "end" ELSE "err"
          /\ objects' = IF r.err = "ok"
                        THEN Append(objects, FieldsToObject(descriptor, r.val))
                        ELSE objects
    /\ UNCHANGED <<descriptor, dependencies, request, earlier>>
    /\ UNCHANGED <<produced, prev, runs, klimit, plan, deps, torename>>
    /\ UNCHANGED <<logvars, valvars>>

FuzzNext ==
    \/ \E d \in Wirings : AddDependency(d)
    \/ \E k \in RequestLimits : CallPermute(k)
    \/ \E k \in RequestLimits : CallLinear(k)
    \/ NextObject

FuzzSpec == FuzzInit /\ [][FuzzNext]_vars

\* The value a message has at a dotted path
RECURSIVE LookupObject(_, _)
LookupObject(obj, path) ==
    IF Len(path) = 1 THEN obj[path[1]]
    ELSE LookupObject(obj[Head(path)], Tail(path))

\* Dependency d holds on message obj
HoldsOn(d, obj) ==
    LookupObject(obj, d.source) = Apply(d.action, LookupObject(obj, d.target))

\* The messages a call of the request's strategy without a limit yields
Unlimited ==
    LET start == IterationHelperStart(descriptor, request.cls, 0, dependencies)
        fields == IF start.err # "ok" THEN <<>> ELSE Collect(start.h, StepCap)
    IN [i \in 1..Len(fields) |-> FieldsToObject(descriptor, fields[i])]

\* C21: two successive permute(limit=k) calls, or linear(limit=k) calls, on
\* one ProtobufGenerator, each iterated to the end, yield the same messages in
\* the same order: the first min(k, natural count) of an unlimited call for
\* k > 0, all of them for k = 0; what one call consumed does not reach the
\* next, and every dependency recorded by add_dependency holds on every
\* message of both.
C21_CallsIndependent ==
    request.cls # "none"
    => /\ phase = "end"
          => /\ Len(objects) = IF request.limit > 0
                               THEN Min(request.limit, Len(Unlimited))
                               ELSE Len(Unlimited)
             /\ objects = SubSeq(Unlimited, 1, Len(objects))
       /\ \A i \in 1..Len(objects) : \A k \in 1..Len(dependencies) :
              HoldsOn(dependencies[k], objects[i])
       /\ (earlier.full /\ earlier.request = request /\ phase \in {"end", "err"})
          => /\ objects = earlier.objects
             /\ phase = earlier.phase

C21_Witness ==
    /\ earlier.full /\ earlier.request = request /\ phase = "end"
    /\ request.cls = "product" /\ request.limit = MaxLimit
    /\ Len(Unlimited) > MaxLimit
    /\ Len(objects) = MaxLimit
    /\ Len(dependencies) = 1

====
